---- MODULE Spec2Model ----
(***************************************************************************)
(* Checksum-file parsing of oz/ozutil.py: bsd_split, sum_split and         *)
(* get_sum_from_file.  A Python str is a sequence of byte codes (0..255),  *)
(* a file is the sequence of lines xreadlines() yields.                    *)
(***************************************************************************)
EXTENDS Integers, Sequences, FiniteSets, TLC

VARIABLES sumfile, file_to_find, digest_bits, digest_type,
          pc, pos, retval, f, exc, line, route, entry

vars == <<sumfile, file_to_find, digest_bits, digest_type,
          pc, pos, retval, f, exc, line, route, entry>>

(***************************************************************************)
(* Bounds of the model.                                                    *)
(***************************************************************************)
\* longest file, in lines
MaxLines == 2
\* longest tail enumerated after the algorithm name of a BSD-style line
MaxBsdTail == 4
\* longest filename of a formatted BSD-style line
MaxNameLen == 3
\* longest digest of a formatted BSD-style line
MaxHexLen == 2
\* longest tail enumerated after the digest characters of a GNU-style line
MaxGnuTail == 4

(***************************************************************************)
(* Byte codes of the characters the code names, and of the few others the  *)
(* inputs are built from.                                                  *)
(***************************************************************************)
Ch == [nul |-> 0, bel |-> 7, bs |-> 8, tab |-> 9, lf |-> 10, vt |-> 11,
       ff |-> 12, cr |-> 13, sp |-> 32, dquote |-> 34, hash |-> 35,
       squote |-> 39, lparen |-> 40, rparen |-> 41, star |-> 42,
       zero |-> 48, seven |-> 55, nine |-> 57, eq |-> 61,
       A |-> 65, F |-> 70, bslash |-> 92,
       a |-> 97, b |-> 98, c |-> 99, f |-> 102, n |-> 110, r |-> 114,
       t |-> 116, v |-> 118, x |-> 120]

MD5 == <<77, 68, 53>>
SHA1 == <<83, 72, 65, 49>>
SHA256 == <<83, 72, 65, 50, 53, 54>>

\* the (digest_bits, digest_type) pairs of the three public entry points
DigestSpecs == { [bits |-> 128, type |-> MD5],
                 [bits |-> 160, type |-> SHA1],
                 [bits |-> 256, type |-> SHA256] }

(***************************************************************************)
(* Python values.                                                          *)
(***************************************************************************)
None == [none |-> TRUE, str |-> <<>>]
Str(s) == [none |-> FALSE, str |-> s]

\* what a call of a parser ends with: a returned pair, or an exception
Return(hex_digest, filename) ==
    [exc |-> "", hex_digest |-> hex_digest, filename |-> filename]
Raise(e) == [exc |-> e, hex_digest |-> None, filename |-> None]
NoCall == [exc |-> "", hex_digest |-> None, filename |-> None]

\* s[i] is inside s (i >= 0, counted from 0)
InRange(s, i) == i < Len(s)
\* s[i], counted from 0
At(s, i) == s[i + 1]
\* s[i:j] for 0 <= i, 0 <= j
Slice(s, i, j) == SubSeq(s, i + 1, IF j < Len(s) THEN j ELSE Len(s))
\* s[i:]
SliceFrom(s, i) == SubSeq(s, i + 1, Len(s))

\* str.isspace of one byte
IsSpace(ch) == ch \in {Ch.tab, Ch.lf, Ch.vt, Ch.ff, Ch.cr, Ch.sp}

\* str.lstrip()
RECURSIVE lstrip(_)
lstrip(s) ==
    IF s = <<>> THEN s
    ELSE IF IsSpace(Head(s)) THEN lstrip(Tail(s)) ELSE s

\* str.rfind(ch): the last index (from 0) of ch in s, -1 when there is none
rfind(s, ch) ==
    LET at == {i \in 1..Len(s) : s[i] = ch}
    IN  IF at = {} THEN -1
        ELSE (CHOOSE i \in at : \A j \in at : j <= i) - 1

\* str.startswith(prefix)
startswith(s, prefix) ==
    /\ Len(s) >= Len(prefix)
    /\ SubSeq(s, 1, Len(prefix)) = prefix

(***************************************************************************)
(* bsd_split(line, digest_type)                                            *)
(***************************************************************************)
\* a digest with one trailing newline removed (d is not empty)
StripNewline(d) ==
    IF d[Len(d)] = Ch.lf THEN SubSeq(d, 1, Len(d) - 1) ELSE d

bsd_split(ln, dtype) ==
    LET c0 == Len(dtype)
    IN  IF ~InRange(ln, c0) THEN Raise("IndexError")
        ELSE
        LET c1 == IF At(ln, c0) = Ch.sp THEN c0 + 1 ELSE c0
        IN  IF ~InRange(ln, c1) THEN Raise("IndexError")
            ELSE IF At(ln, c1) # Ch.lparen THEN Return(None, None)
            ELSE
            LET current == c1 + 1
                file_end == rfind(ln, Ch.rparen)
            IN  IF file_end = -1 THEN Return(None, None)
                ELSE
                LET filename == Slice(ln, current, file_end)
                    rest == lstrip(SliceFrom(ln, file_end + 1))
                IN  IF ~InRange(rest, 0) THEN Raise("IndexError")
                    ELSE IF At(rest, 0) # Ch.eq THEN Return(None, None)
                    ELSE
                    LET d == lstrip(SliceFrom(rest, 1))
                    IN  IF d = <<>> THEN Raise("IndexError")
                        ELSE Return(Str(StripNewline(d)), Str(filename))

(***************************************************************************)
(* str.decode('string_escape'), as CPython 2 does it                       *)
(***************************************************************************)
IsOctal(ch) == ch \in Ch.zero..Ch.seven
IsXDigit(ch) == ch \in (Ch.zero..Ch.nine) \cup (Ch.A..Ch.F) \cup (Ch.a..Ch.f)
XValue(ch) ==
    IF ch \in Ch.zero..Ch.nine THEN ch - Ch.zero
    ELSE IF ch \in Ch.a..Ch.f THEN ch - Ch.a + 10
    ELSE ch - Ch.A + 10

\* the one-character escapes and the byte each stands for
SimpleEscapes ==
    (Ch.bslash :> Ch.bslash) @@ (Ch.squote :> Ch.squote) @@
    (Ch.dquote :> Ch.dquote) @@ (Ch.b :> Ch.bs) @@ (Ch.f :> Ch.ff) @@
    (Ch.t :> Ch.tab) @@ (Ch.n :> Ch.lf) @@ (Ch.r :> Ch.cr) @@
    (Ch.v :> Ch.vt) @@ (Ch.a :> Ch.bel)

\* \o, \oo, \ooo starting at s[i]: the byte and the number of digits used
OctalEscape(s, i) ==
    LET d1 == s[i] - Ch.zero
        two == i + 1 <= Len(s) /\ IsOctal(s[i + 1])
        three == two /\ i + 2 <= Len(s) /\ IsOctal(s[i + 2])
    IN  IF three
        THEN [byte |-> (d1 * 64 + (s[i + 1] - Ch.zero) * 8
                        + (s[i + 2] - Ch.zero)) % 256, used |-> 3]
        ELSE IF two
        THEN [byte |-> d1 * 8 + (s[i + 1] - Ch.zero), used |-> 2]
        ELSE [byte |-> d1, used |-> 1]

\* decoding s from position i (from 1) on, out being what is decoded so far
RECURSIVE DecodeFrom(_, _, _)
DecodeFrom(s, i, out) ==
    IF i > Len(s) THEN [exc |-> "", str |-> out]
    ELSE IF s[i] # Ch.bslash THEN DecodeFrom(s, i + 1, Append(out, s[i]))
    ELSE IF i + 1 > Len(s) THEN [exc |-> "ValueError", str |-> <<>>]
    ELSE
    LET e == s[i + 1]
    IN  IF e = Ch.lf THEN DecodeFrom(s, i + 2, out)
        ELSE IF e \in DOMAIN SimpleEscapes
        THEN DecodeFrom(s, i + 2, Append(out, SimpleEscapes[e]))
        ELSE IF IsOctal(e)
        THEN LET o == OctalEscape(s, i + 1)
             IN  DecodeFrom(s, i + 1 + o.used, Append(out, o.byte))
        ELSE IF e = Ch.x
        THEN IF i + 3 <= Len(s) /\ IsXDigit(s[i + 2]) /\ IsXDigit(s[i + 3])
             THEN DecodeFrom(s, i + 4,
                      Append(out, XValue(s[i + 2]) * 16 + XValue(s[i + 3])))
             ELSE [exc |-> "ValueError", str |-> <<>>]
        ELSE DecodeFrom(s, i + 1, Append(out, Ch.bslash))

string_escape(s) == DecodeFrom(s, 1, <<>>)

(***************************************************************************)
(* sum_split(line, digest_bits)                                            *)
(***************************************************************************)
digest_hex_bytes(bits) == bits \div 4

\* the length test with the two separator bytes left out of the sum
min_length_noSeparators(ln, bits) ==
    digest_hex_bytes(bits) + 1 + (IF At(ln, 0) = Ch.bslash THEN 1 ELSE 0)

\* hex digits + blank and binary indicator (2 bytes) + 1 byte of filename,
\* one more for a line that starts with a backslash (ln is not empty)
min_length(ln, bits) ==
    digest_hex_bytes(bits) + 2 + 1 + (IF At(ln, 0) = Ch.bslash THEN 1 ELSE 0)

\* the filename with the trailing newline kept
GnuFilename_keepNewline(ln, current) == SliceFrom(ln, current)

\* the filename: the rest of the line, without one trailing newline
GnuFilename(ln, current) ==
    IF ln[Len(ln)] = Ch.lf THEN Slice(ln, current, Len(ln) - 1)
    ELSE SliceFrom(ln, current)

sum_split(ln, bits) ==
    IF ~InRange(ln, 0) THEN Raise("IndexError")
    ELSE IF Len(ln) < min_length(ln, bits) THEN Return(None, None)
    ELSE
    LET escaped_filename == At(ln, 0) = Ch.bslash
        current == IF escaped_filename THEN digest_hex_bytes(bits) + 1
                   ELSE digest_hex_bytes(bits)
        hex_digest == Slice(ln, IF escaped_filename THEN 1 ELSE 0, current)
    IN  IF ~InRange(ln, current) THEN Raise("IndexError")
        ELSE IF At(ln, current) # Ch.sp /\ At(ln, current) # Ch.tab
        THEN Return(None, None)
        ELSE IF ~InRange(ln, current + 1) THEN Raise("IndexError")
        ELSE IF At(ln, current + 1) # Ch.sp /\ At(ln, current + 1) # Ch.star
        THEN Return(None, None)
        ELSE
        LET filename == GnuFilename(ln, current + 2)
        IN  IF escaped_filename
            THEN LET d == string_escape(filename)
                 IN  IF d.exc # "" THEN Raise(d.exc)
                     ELSE Return(Str(hex_digest), Str(d.str))
            ELSE Return(Str(hex_digest), Str(filename))

(***************************************************************************)
(* get_sum_from_file(sumfile, file_to_find, digest_bits, digest_type)      *)
(***************************************************************************)
\* a comment test that never fires
IsComment_never(ln) == FALSE

\* line[0] == '#' (ln is not empty)
IsComment(ln) == At(ln, 0) = Ch.hash

\* what the loop body does with a line that has lost its leading whitespace
Classify(ln, dtype) ==
    IF Len(ln) = 0 THEN "blank"
    ELSE IF IsComment(ln) THEN "comment"
    ELSE IF startswith(ln, dtype) THEN "bsd"
    ELSE "gnu"

\* the (hex_digest, filename) the loop body gets for one raw line
ParseLine(raw, bits, dtype) ==
    LET ln == lstrip(raw)
        how == Classify(ln, dtype)
    IN  IF how = "bsd" THEN bsd_split(ln, dtype)
        ELSE IF how = "gnu" THEN sum_split(ln, bits)
        ELSE NoCall

\* a match that does not leave the loop
OnMatchPc_continue == "loop"

\* where a match goes: break, to f.close()
OnMatchPc == "close"

\* the whole call as a function of its arguments, the file being readable:
\* the exception it ends with, or the value it returns
RECURSIVE Scan(_, _, _, _)
Scan(file, target, bits, dtype) ==
    IF file = <<>> THEN [exc |-> "", retval |-> None]
    ELSE
    LET r == ParseLine(Head(file), bits, dtype)
    IN  IF r.exc # "" THEN [exc |-> r.exc, retval |-> None]
        ELSE IF r.hex_digest.none \/ r.filename.none
        THEN Scan(Tail(file), target, bits, dtype)
        ELSE IF r.filename.str = target
        THEN [exc |-> "", retval |-> r.hex_digest]
        ELSE Scan(Tail(file), target, bits, dtype)

(***************************************************************************)
(* The inputs.                                                             *)
(***************************************************************************)
Seqs(alphabet, n) == UNION {[1..k -> alphabet] : k \in 0..n}
Fill(ch, n) == [i \in 1..n |-> ch]

Names == Seqs({Ch.a, Ch.rparen, Ch.sp, Ch.eq}, MaxNameLen)
Hexes == Seqs({Ch.a, Ch.zero}, MaxHexLen)

\* "ALG (" + filename + ") = " + hex
FormatBsdBody(dtype, filename, hex) ==
    dtype \o <<Ch.sp, Ch.lparen>> \o filename
          \o <<Ch.rparen, Ch.sp, Ch.eq, Ch.sp>> \o hex
FormatBsd(dtype, filename, hex) ==
    FormatBsdBody(dtype, filename, hex) \o <<Ch.lf>>

\* hex + blank + indicator + filename
FormatGnuBody(hex, indicator, filename) ==
    hex \o <<Ch.sp, indicator>> \o filename

\* the lines bsd_split is tried on: each starts with the algorithm name
BsdLines(dtype) ==
    {dtype \o t \o e :
        t \in Seqs({Ch.sp, Ch.lparen, Ch.rparen, Ch.eq, Ch.a}, MaxBsdTail),
        e \in {<<>>, <<Ch.lf>>}}
    \cup {FormatBsd(dtype, fn, hx) : fn \in Names, hx \in Hexes}

\* the lines sum_split is tried on: none is empty
GnuTails ==
    {t \o e :
        t \in Seqs({Ch.sp, Ch.tab, Ch.star, Ch.a, Ch.bslash, Ch.zero, Ch.x},
                   MaxGnuTail),
        e \in {<<>>, <<Ch.lf>>}}
GnuLines(bits) ==
    (GnuTails \ {<<>>})
    \cup {p \o Fill(Ch.a, n) \o t :
            p \in {<<>>, <<Ch.bslash>>},
            n \in {digest_hex_bytes(bits) - 1, digest_hex_bytes(bits)},
            t \in GnuTails}

\* the files get_sum_from_file is tried on
Targets == {<<Ch.a>>, <<Ch.b>>}
LineBodies(bits, dtype) ==
    LET d1 == Fill(Ch.a, digest_hex_bytes(bits))
        d2 == Fill(Ch.zero, digest_hex_bytes(bits))
        na == <<Ch.a>>
        nb == <<Ch.b>>
        likeEntry == <<Ch.hash>> \o Fill(Ch.a, digest_hex_bytes(bits) - 1)
                         \o <<Ch.sp, Ch.sp>> \o na
    IN  { <<>>, <<Ch.sp, Ch.tab>>, <<Ch.hash, Ch.sp, Ch.a>>,
          likeEntry, <<Ch.sp>> \o likeEntry }
        \cup {FormatBsdBody(t, na, d1) : t \in {MD5, SHA1, SHA256}}
        \cup { FormatBsdBody(dtype, na, d2),
               <<Ch.sp>> \o FormatBsdBody(dtype, nb, d1),
               dtype, dtype \o <<Ch.x>>,
               dtype \o <<Ch.sp, Ch.lparen, Ch.a>>,
               dtype \o <<Ch.sp, Ch.lparen, Ch.a, Ch.rparen>>,
               dtype \o <<Ch.sp, Ch.lparen, Ch.a, Ch.rparen, Ch.sp, Ch.x>>,
               dtype \o <<Ch.sp, Ch.lparen, Ch.a, Ch.rparen, Ch.sp, Ch.eq>> }
        \cup { FormatGnuBody(d1, Ch.sp, na), FormatGnuBody(d2, Ch.sp, na),
               FormatGnuBody(d1, Ch.star, nb),
               Fill(Ch.a, digest_hex_bytes(bits)),
               FormatGnuBody(d1, Ch.sp, <<>>),
               FormatGnuBody(d1, Ch.x, na),
               <<Ch.bslash>> \o FormatGnuBody(d1, Ch.sp, na),
               <<Ch.bslash>> \o FormatGnuBody(d1, Ch.sp, <<Ch.bslash, Ch.zero>>),
               <<Ch.bslash>> \o FormatGnuBody(d1, Ch.sp, <<Ch.bslash, Ch.x>>) }

\* xreadlines(): every line but the last ends with a newline, none is empty
Files(bits, dtype) ==
    LET bodies == LineBodies(bits, dtype)
        ended == {b \o <<Ch.lf>> : b \in bodies}
        last == ended \cup (bodies \ {<<>>})
    IN  {<<>>} \cup
        UNION { {h \o <<l>> : h \in [1..k -> ended], l \in last} :
                k \in 0..(MaxLines - 1) }

(***************************************************************************)
(* The state machine.                                                      *)
(***************************************************************************)
Init ==
    /\ sumfile = <<>>
    /\ file_to_find = <<>>
    /\ digest_bits = 0
    /\ digest_type = <<>>
    /\ pc = "idle"
    /\ pos = 0
    /\ retval = None
    /\ f = "closed"
    /\ exc = ""
    /\ line = <<>>
    /\ route = "none"
    /\ entry = NoCall

\* a direct call of bsd_split
Call_bsd_split ==
    /\ pc = "idle"
    /\ \E spec \in DigestSpecs : \E ln \in BsdLines(spec.type) :
        /\ digest_type' = spec.type
        /\ line' = ln
        /\ entry' = bsd_split(ln, spec.type)
    /\ pc' = "bsd_split_done"
    /\ UNCHANGED <<sumfile, file_to_find, digest_bits, pos, retval, f, exc,
                   route>>

\* a direct call of sum_split
Call_sum_split ==
    /\ pc = "idle"
    /\ \E spec \in DigestSpecs : \E ln \in GnuLines(spec.bits) :
        /\ digest_bits' = spec.bits
        /\ line' = ln
        /\ entry' = sum_split(ln, spec.bits)
    /\ pc' = "sum_split_done"
    /\ UNCHANGED <<sumfile, file_to_find, digest_type, pos, retval, f, exc,
                   route>>

\* get_md5sum_from_file, get_sha1sum_from_file, get_sha256sum_from_file:
\* the call, up to retval = None
Call_get_sum_from_file ==
    /\ pc = "idle"
    /\ \E spec \in DigestSpecs :
        /\ digest_bits' = spec.bits
        /\ digest_type' = spec.type
        /\ sumfile' \in Files(spec.bits, spec.type)
    /\ file_to_find' \in Targets
    /\ retval' = None
    /\ pc' = "open"
    /\ UNCHANGED <<pos, f, exc, line, route, entry>>

\* f = open(sumfile, 'r')
Open ==
    /\ pc = "open"
    /\ f' = "open"
    /\ pc' = "loop"
    /\ UNCHANGED <<sumfile, file_to_find, digest_bits, digest_type, pos,
                   retval, exc, line, route, entry>>

\* open() raises: the file cannot be read
OpenFails ==
    /\ pc = "open"
    /\ exc' = "IOError"
    /\ pc' = "raised"
    /\ UNCHANGED <<sumfile, file_to_find, digest_bits, digest_type, pos,
                   retval, f, line, route, entry>>

\* the loop has a next line, and the body classifies it as how
NextLineIs(how) ==
    /\ pc = "loop"
    /\ pos < Len(sumfile)
    /\ Classify(lstrip(sumfile[pos + 1]), digest_type) = how
    /\ pos' = pos + 1
    /\ line' = lstrip(sumfile[pos + 1])
    /\ route' = how

\* the rest of the loop body, r being what the parser ended with
AfterParse(r) ==
    /\ entry' = r
    /\ IF r.exc # ""
       THEN pc' = "raised" /\ exc' = r.exc /\ retval' = retval
       ELSE IF r.hex_digest.none \/ r.filename.none
       THEN pc' = "loop" /\ exc' = exc /\ retval' = retval
       ELSE IF r.filename.str = file_to_find
       THEN pc' = OnMatchPc /\ exc' = exc /\ retval' = r.hex_digest
       ELSE pc' = "loop" /\ exc' = exc /\ retval' = retval

\* ignore blank lines
SkipBlank ==
    /\ NextLineIs("blank")
    /\ UNCHANGED <<sumfile, file_to_find, digest_bits, digest_type, pc,
                   retval, f, exc, entry>>

\* ignore comment lines
SkipComment ==
    /\ NextLineIs("comment")
    /\ UNCHANGED <<sumfile, file_to_find, digest_bits, digest_type, pc,
                   retval, f, exc, entry>>

\* a line that starts with digest_type
BsdLine ==
    /\ NextLineIs("bsd")
    /\ AfterParse(bsd_split(lstrip(sumfile[pos + 1]), digest_type))
    /\ UNCHANGED <<sumfile, file_to_find, digest_bits, digest_type, f>>

\* any other line
GnuLine ==
    /\ NextLineIs("gnu")
    /\ AfterParse(sum_split(lstrip(sumfile[pos + 1]), digest_bits))
    /\ UNCHANGED <<sumfile, file_to_find, digest_bits, digest_type, f>>

\* the file has no more lines
Exhausted ==
    /\ pc = "loop"
    /\ pos = Len(sumfile)
    /\ pc' = "close"
    /\ UNCHANGED <<sumfile, file_to_find, digest_bits, digest_type, pos,
                   retval, f, exc, line, route, entry>>

\* f.close()
Close ==
    /\ pc = "close"
    /\ f' = "closed"
    /\ pc' = "return"
    /\ UNCHANGED <<sumfile, file_to_find, digest_bits, digest_type, pos,
                   retval, exc, line, route, entry>>

\* return retval
ReturnRetval ==
    /\ pc = "return"
    /\ pc' = "done"
    /\ UNCHANGED <<sumfile, file_to_find, digest_bits, digest_type, pos,
                   retval, f, exc, line, route, entry>>

Next ==
    \/ Call_bsd_split
    \/ Call_sum_split
    \/ Call_get_sum_from_file
    \/ Open
    \/ OpenFails
    \/ SkipBlank
    \/ SkipComment
    \/ BsdLine
    \/ GnuLine
    \/ Exhausted
    \/ Close
    \/ ReturnRetval

Spec == Init /\ [][Next]_vars

(***************************************************************************)
(* The claims.                                                             *)
(***************************************************************************)
\* the call of get_sum_from_file has returned
Returned == pc = "done"

\* the lines of the file that parse to an entry naming file_to_find
MatchingLines ==
    {i \in 1..Len(sumfile) :
        LET r == ParseLine(sumfile[i], digest_bits, digest_type)
        IN  /\ r.exc = ""
            /\ ~r.hex_digest.none
            /\ ~r.filename.none
            /\ r.filename.str = file_to_find}
FirstMatch == CHOOSE i \in MatchingLines : \A j \in MatchingLines : i <= j

\* C1: a call that returns returns the digest of the earliest line, in file
\* order, that parses to an entry whose filename is file_to_find, and None
\* exactly when no line parses to such an entry.
C1_FirstMatchWins ==
    Returned =>
        /\ retval = None <=> MatchingLines = {}
        /\ MatchingLines # {} =>
             retval = ParseLine(sumfile[FirstMatch], digest_bits,
                                digest_type).hex_digest

\* two lines name file_to_find with different digests; the first is returned
C1_Witness ==
    /\ Returned
    /\ \E i, j \in MatchingLines :
        /\ i < j
        /\ ParseLine(sumfile[i], digest_bits, digest_type).hex_digest
             # ParseLine(sumfile[j], digest_bits, digest_type).hex_digest
        /\ retval = ParseLine(sumfile[i], digest_bits, digest_type).hex_digest

\* C2: no line makes the scan raise: a call of get_sum_from_file ends with an
\* exception only when the file cannot be opened.
C2_NeverRaisesOnContent == pc = "raised" => exc = "IOError"

\* C3: when the call has ended, returning or raising, the file handle is
\* closed.
C3_HandleReleased == pc \in {"done", "raised"} => f = "closed"

\* the minimum length as the claim states it: bit length / 4 + 3, plus 1 when
\* the line starts with a backslash
C4_Minimum(ln, bits) ==
    (bits \div 4) + 3 + (IF ln[1] = Ch.bslash THEN 1 ELSE 0)

\* the next line of the scan goes to sum_split and is shorter than the minimum
C4_NextIsShortGnu ==
    /\ pc = "loop"
    /\ pos < Len(sumfile)
    /\ LET ln == lstrip(sumfile[pos + 1])
       IN  /\ ln # <<>>
           /\ ln[1] # Ch.hash
           /\ ~startswith(ln, digest_type)
           /\ Len(ln) < C4_Minimum(ln, digest_bits)

\* C4: sum_split returns no entry, without raising, for every non-empty line
\* shorter than the minimum length; it reads no index outside a line of at
\* least the minimum length; and get_sum_from_file goes on to the next line
\* after a GNU-style line that is too short.
C4_ShortLineSkipped ==
    [][ /\ (pc' = "sum_split_done" /\ line' # <<>>) =>
             IF Len(line') < C4_Minimum(line', digest_bits')
             THEN entry' = Return(None, None)
             ELSE entry'.exc # "IndexError"
        /\ C4_NextIsShortGnu =>
             /\ pc' = "loop"
             /\ pos' = pos + 1
             /\ entry' = Return(None, None)
             /\ exc' = exc /\ retval' = retval /\ f' = f ]_vars

\* a too short GNU-style line was skipped and the line after it matched
C4_Witness ==
    /\ Returned
    /\ Len(sumfile) = 2
    /\ LET ln == lstrip(sumfile[1])
       IN  /\ ln # <<>>
           /\ ln[1] \notin {Ch.hash, Ch.bslash}
           /\ ~startswith(ln, digest_type)
           /\ Len(ln) < C4_Minimum(ln, digest_bits)
    /\ MatchingLines = {2}
    /\ retval # None

\* C5: a parsed line that begins with "SHA256" goes to bsd_split whatever
\* digest_type is, and a line that begins with none of "MD5", "SHA1",
\* "SHA256" goes to sum_split.
C5_Dispatch ==
    route \in {"bsd", "gnu"} =>
        /\ startswith(line, SHA256) => route = "bsd"
        /\ (\A t \in {MD5, SHA1, SHA256} : ~startswith(line, t))
             => route = "gnu"

\* C6: bsd_split of "MD5 (" + filename + ") = " + hex + newline with digest
\* type "MD5" returns (hex, filename), for every filename without a newline
\* and every hex string.
C6_BsdRoundTrip ==
    (pc = "bsd_split_done" /\ digest_type = MD5) =>
        \A fn \in Names, hx \in Hexes :
            line = FormatBsd(MD5, fn, hx) => entry = Return(Str(hx), Str(fn))

\* the digest and the filename of a line hex + two spaces + filename + newline
C7_Hex(ln, bits) == SubSeq(ln, 1, bits \div 4)
C7_Name(ln, bits) == SubSeq(ln, (bits \div 4) + 3, Len(ln) - 1)
C7_IsHexDigit(ch) ==
    ch \in (Ch.zero..Ch.nine) \cup (Ch.a..Ch.f) \cup (Ch.A..Ch.F)
C7_Formatted(ln, bits) ==
    /\ Len(ln) >= (bits \div 4) + 3
    /\ \A i \in 1..(bits \div 4) : C7_IsHexDigit(ln[i])
    /\ ln[(bits \div 4) + 1] = Ch.sp
    /\ ln[(bits \div 4) + 2] = Ch.sp
    /\ ln[Len(ln)] = Ch.lf
    /\ LET fn == C7_Name(ln, bits)
       IN  /\ \A i \in 1..Len(fn) : fn[i] # Ch.lf
           /\ (fn # <<>> => fn[1] # Ch.bslash)
           /\ \A i \in 1..(Len(fn) - 1) : fn[i] # Ch.bslash

C8_Skipped(raw) ==
    \/ \A i \in 1..Len(raw) : IsSpace(raw[i])
    \/ \E i \in 1..Len(raw) :
        /\ raw[i] = Ch.hash
        /\ \A j \in 1..(i - 1) : IsSpace(raw[j])
C8_Kept(file) == SelectSeq(file, LAMBDA raw : ~C8_Skipped(raw))

\* C8: a blank or comment line is handed to no parser and matches nothing,
\* and the call ends as it does on the file without those lines.
C8_BlankAndCommentSkipped ==
    /\ (pc = "loop" /\ pos > 0 /\ C8_Skipped(sumfile[pos])) =>
          (route \in {"blank", "comment"} /\ retval = None)
    /\ (pc \in {"loop", "close", "return", "done", "raised"}
          /\ \A i \in 1..pos : C8_Skipped(sumfile[i])) =>
          (entry = NoCall /\ retval = None /\ exc \in {"", "IOError"})
    /\ (pc = "done" \/ (pc = "raised" /\ exc # "IOError")) =>
          [exc |-> exc, retval |-> retval]
            = Scan(C8_Kept(sumfile), file_to_find, digest_bits, digest_type)

\* a comment that reads like an entry for file_to_find came first, and the
\* call returned the digest of the entry after it
C8_Witness ==
    /\ Returned
    /\ Len(sumfile) = 2
    /\ C8_Skipped(sumfile[1])
    /\ LET ln == lstrip(sumfile[1])
       IN  /\ Len(ln) > 1
           /\ sum_split(<<Ch.a>> \o Tail(ln), digest_bits).filename
                = Str(file_to_find)
    /\ MatchingLines = {2}
    /\ retval # None

\* C9: sum_split returns no filename that holds a NUL byte, and it raises
\* nothing for a line with an escaped filename: a bad escape fails the line.
C9_NoNulInFilename ==
    (pc = "sum_split_done" /\ line # <<>> /\ line[1] = Ch.bslash) =>
        /\ entry.exc = ""
        /\ \A i \in 1..Len(entry.filename.str) :
              entry.filename.str[i] # Ch.nul

\* C10: every entry sum_split returns has a digest of bit length / 4
\* characters and a filename of at least one character.
C10_FilenameNotEmpty ==
    (pc = "sum_split_done" /\ entry.exc = "" /\ ~entry.filename.none) =>
        /\ Len(entry.hex_digest.str) = digest_bits \div 4
        /\ Len(entry.filename.str) >= 1

====
